---------------------------- MODULE Spec2Model ----------------------------
(***************************************************************************)
(* Model of passwordChecker.py: the PasswordChecker class (the scorer      *)
(* score_password and the breach lookup check_pwned_password) and the      *)
(* command loop main().                                                    *)
(*                                                                         *)
(* A Python str is a sequence of characters.  An ASCII character is the    *)
(* one-character TLA+ string; a non-ASCII character is written by its code *)
(* point name, e.g. "U+00C9".  A password is a sequence of such            *)
(* characters, e.g. <<"a", "B", "1">>.                                      *)
(***************************************************************************)
EXTENDS Integers, Sequences, FiniteSets, TLC

VARIABLES pc, choice, password, other, score, score2, request, response,
          outcome, shown

vars == <<pc, choice, password, other, score, score2, request, response,
          outcome, shown>>

---------------------------------------------------------------------------
(* Characters and the str methods the program uses.                        *)

\* The printable ASCII characters in code point order, from 32 (space); the
\* grave accent (96) is written by its code point name.
AsciiPrintable ==
  <<" ", "!", "\"", "#", "$", "%", "&", "'", "(", ")", "*", "+", ",", "-",
    ".", "/", "0", "1", "2", "3", "4", "5", "6", "7", "8", "9", ":", ";",
    "<", "=", ">", "?", "@", "A", "B", "C", "D", "E", "F", "G", "H", "I",
    "J", "K", "L", "M", "N", "O", "P", "Q", "R", "S", "T", "U", "V", "W",
    "X", "Y", "Z", "[", "\\", "]", "^", "_", "U+0060", "a", "b", "c", "d", "e",
    "f", "g", "h", "i", "j", "k", "l", "m", "n", "o", "p", "q", "r", "s",
    "t", "u", "v", "w", "x", "y", "z", "{", "|", "}", "~">>

\* The non-ASCII characters of the model with their code points:
\* E acute (upper, lower), Arabic-Indic digit three, superscript two,
\* CJK "middle", Kelvin sign, I with dot above, combining dot above.
NonAscii ==
  [c \in {"U+00C9", "U+00E9", "U+0663", "U+00B2", "U+4E2D", "U+212A",
          "U+0130", "U+0307"} |->
     CASE c = "U+00C9" -> 201
       [] c = "U+00E9" -> 233
       [] c = "U+0663" -> 1635
       [] c = "U+00B2" -> 178
       [] c = "U+4E2D" -> 20013
       [] c = "U+212A" -> 8490
       [] c = "U+0130" -> 304
       [] c = "U+0307" -> 775]

\* The ASCII control characters the program's input can hold.
Control == [c \in {"\t", "\n", "\r"} |->
              CASE c = "\t" -> 9 [] c = "\n" -> 10 [] c = "\r" -> 13]

AsciiOrd == [i \in 1..Len(AsciiPrintable) |-> i + 31]

\* ord(c)
Ord(c) ==
  IF c \in DOMAIN NonAscii THEN NonAscii[c]
  ELSE IF c \in DOMAIN Control THEN Control[c]
  ELSE AsciiOrd[CHOOSE i \in 1..Len(AsciiPrintable) : AsciiPrintable[i] = c]

\* chr(n) for printable ASCII
Chr(n) == AsciiPrintable[n - 31]

AsciiUpper == {AsciiPrintable[i] : i \in 34..59}
AsciiLower == {AsciiPrintable[i] : i \in 66..91}
AsciiDigit == {AsciiPrintable[i] : i \in 17..26}

\* c.isupper(), c.islower(), c.isdigit(), c.isspace() of one character
isupper(c) == c \in AsciiUpper \cup {"U+00C9", "U+212A", "U+0130"}
islower(c) == c \in AsciiLower \cup {"U+00E9"}
isdigit(c) == c \in AsciiDigit \cup {"U+0663", "U+00B2"}
isspace(c) == c \in {" ", "\t", "\n", "\r"}

\* string.punctuation: the 32 ASCII punctuation characters
punctuation ==
  {AsciiPrintable[i] : i \in (2..16) \cup (27..33) \cup (60..65) \cup (92..95)}

\* c.lower() of one character: a string, since lowering can lengthen
LowerChar(c) ==
  IF c \in AsciiUpper THEN <<Chr(Ord(c) + 32)>>
  ELSE CASE c = "U+00C9" -> <<"U+00E9">>
         [] c = "U+212A" -> <<"k">>
         [] c = "U+0130" -> <<"i", "U+0307">>
         [] OTHER -> <<c>>

\* c.upper() of one character of a hex digest
UpperChar(c) == IF c \in AsciiLower THEN Chr(Ord(c) - 32) ELSE c

RECURSIVE lower(_)
\* s.lower()
lower(s) == IF s = <<>> THEN <<>> ELSE LowerChar(Head(s)) \o lower(Tail(s))

\* s.upper() (used on hex digests only)
upper(s) == [i \in 1..Len(s) |-> UpperChar(s[i])]

RECURSIVE lstrip(_)
lstrip(s) == IF s # <<>> /\ isspace(Head(s)) THEN lstrip(Tail(s)) ELSE s

RECURSIVE rstrip(_)
rstrip(s) ==
  IF s # <<>> /\ isspace(s[Len(s)]) THEN rstrip(SubSeq(s, 1, Len(s) - 1))
  ELSE s

\* s.strip()
strip(s) == rstrip(lstrip(s))

---------------------------------------------------------------------------
(* hashlib.sha1(password.encode('utf-8')).hexdigest(): UTF-8 and SHA-1     *)
(* (FIPS 180-4), computed bit for bit.  A 32-bit word is the pair          *)
(* <<high 16 bits, low 16 bits>>, which keeps every intermediate value     *)
(* inside TLC's integers.                                                  *)

\* The UTF-8 bytes of one character (code points below 65536)
Utf8Char(c) ==
  LET n == Ord(c) IN
  IF n < 128 THEN <<n>>
  ELSE IF n < 2048 THEN <<192 + (n \div 64), 128 + (n % 64)>>
  ELSE <<224 + (n \div 4096), 128 + ((n \div 64) % 64), 128 + (n % 64)>>

RECURSIVE encode(_)
\* s.encode('utf-8'): a sequence of bytes
encode(s) == IF s = <<>> THEN <<>> ELSE Utf8Char(Head(s)) \o encode(Tail(s))

RECURSIVE BitXor(_, _, _)
BitXor(a, b, n) ==
  IF n = 0 THEN 0
  ELSE ((a + b) % 2) + 2 * BitXor(a \div 2, b \div 2, n - 1)

RECURSIVE BitAnd(_, _, _)
BitAnd(a, b, n) ==
  IF n = 0 THEN 0
  ELSE ((a % 2) * (b % 2)) + 2 * BitAnd(a \div 2, b \div 2, n - 1)

Xor32(x, y) == <<BitXor(x[1], y[1], 16), BitXor(x[2], y[2], 16)>>
And32(x, y) == <<BitAnd(x[1], y[1], 16), BitAnd(x[2], y[2], 16)>>
Not32(x) == <<65535 - x[1], 65535 - x[2]>>
\* x | y for 32-bit words
Or32(x, y) == Not32(And32(Not32(x), Not32(y)))

\* (x + y) mod 2^32
Add32(x, y) ==
  LET lo == x[2] + y[2]
  IN  <<(x[1] + y[1] + (lo \div 65536)) % 65536, lo % 65536>>

\* x rotated left by n bits, 0 < n < 16
RotlSmall(x, n) ==
  LET p == 2 ^ n
      q == 2 ^ (16 - n)
  IN  <<((x[1] % q) * p) + (x[2] \div q), ((x[2] % q) * p) + (x[1] \div q)>>

\* x rotated left by n bits, 0 < n < 32, n # 16
Rotl(x, n) == IF n < 16 THEN RotlSmall(x, n) ELSE RotlSmall(<<x[2], x[1]>>, n - 16)

\* The initial hash value H0..H4 of SHA-1
Sha1Init ==
  << <<26437, 8961>>, <<61389, 43913>>, <<39098, 56574>>, <<4146, 21622>>,
     <<50130, 57840>> >>

\* The round constant K_t
Sha1K(t) ==
  IF t < 20 THEN <<23170, 31129>>
  ELSE IF t < 40 THEN <<28377, 60321>>
  ELSE IF t < 60 THEN <<36635, 48348>>
  ELSE <<51810, 49622>>

\* The round function f_t(b, c, d)
Sha1F(t, b, c, d) ==
  IF t < 20 THEN Or32(And32(b, c), And32(Not32(b), d))
  ELSE IF t < 40 THEN Xor32(Xor32(b, c), d)
  ELSE IF t < 60 THEN Or32(Or32(And32(b, c), And32(b, d)), And32(c, d))
  ELSE Xor32(Xor32(b, c), d)

\* The padded message: the bytes, 0x80, zeros up to 56 mod 64, then the bit
\* length as 8 big-endian bytes (messages shorter than 8192 bytes)
Sha1Pad(bytes) ==
  LET n == Len(bytes)
      z == (119 - n) % 64
      bits == 8 * n
  IN  bytes \o <<128>> \o [i \in 1..z |-> 0]
        \o <<0, 0, 0, 0, 0, 0, (bits \div 256) % 256, bits % 256>>

\* Word i (from 0) of a 64-byte block
BlockWord(block, i) ==
  <<block[4 * i + 1] * 256 + block[4 * i + 2],
    block[4 * i + 3] * 256 + block[4 * i + 4]>>

RECURSIVE Sha1Schedule(_)
\* The message schedule W_0..W_79, extended from the 16 words of the block
Sha1Schedule(w) ==
  IF Len(w) = 80 THEN w
  ELSE LET t == Len(w) + 1
           x == Xor32(Xor32(w[t - 3], w[t - 8]), Xor32(w[t - 14], w[t - 16]))
       IN  Sha1Schedule(Append(w, Rotl(x, 1)))

\* Round t on the working variables s = <<a, b, c, d, e>> with word wt
Sha1Round(s, wt, t) ==
  LET temp == Add32(Add32(Add32(Rotl(s[1], 5), Sha1F(t, s[2], s[3], s[4])),
                          Add32(s[5], Sha1K(t))), wt)
  IN  <<temp, s[1], Rotl(s[2], 30), s[3], s[4]>>

RECURSIVE Sha1Rounds(_, _)
\* The working variables before round 0 and after each of rounds 0..79:
\* tr[t + 1] is the state before round t
Sha1Rounds(tr, w) ==
  IF Len(tr) = 81 THEN tr
  ELSE LET t == Len(tr) - 1
       IN  Sha1Rounds(Append(tr, Sha1Round(tr[t + 1], w[t + 1], t)), w)

\* One compression step: the hash value h after the 64-byte block
Sha1Block(h, block) ==
  LET w == Sha1Schedule([i \in 1..16 |-> BlockWord(block, i - 1)])
      s == Sha1Rounds(<<h>>, w)[81]
  IN  [i \in 1..5 |-> Add32(h[i], s[i])]

RECURSIVE Sha1Blocks(_, _)
Sha1Blocks(h, msg) ==
  IF msg = <<>> THEN h
  ELSE Sha1Blocks(Sha1Block(h, SubSeq(msg, 1, 64)), SubSeq(msg, 65, Len(msg)))

\* hashlib.sha1(bytes): the digest as five 32-bit words
sha1(bytes) == Sha1Blocks(Sha1Init, Sha1Pad(bytes))

HexDigits == <<"0", "1", "2", "3", "4", "5", "6", "7", "8", "9",
               "a", "b", "c", "d", "e", "f">>

\* Four lowercase hex digits of a 16-bit value
Hex16(v) ==
  <<HexDigits[(v \div 4096) + 1], HexDigits[((v \div 256) % 16) + 1],
    HexDigits[((v \div 16) % 16) + 1], HexDigits[(v % 16) + 1]>>

\* .hexdigest(): 40 lowercase hex digits
hexdigest(h) ==
  Hex16(h[1][1]) \o Hex16(h[1][2]) \o Hex16(h[2][1]) \o Hex16(h[2][2])
    \o Hex16(h[3][1]) \o Hex16(h[3][2]) \o Hex16(h[4][1]) \o Hex16(h[4][2])
    \o Hex16(h[5][1]) \o Hex16(h[5][2])

---------------------------------------------------------------------------
(* class PasswordChecker: the scorer                                       *)

\* self.common_passwords (__init__)
common_passwords ==
  <<<<"1", "2", "3", "4", "5", "6">>,
    <<"p", "a", "s", "s", "w", "o", "r", "d">>,
    <<"1", "2", "3", "4", "5", "6", "7", "8">>,
    <<"q", "w", "e", "r", "t", "y">>,
    <<"1", "2", "3", "4", "5", "6", "7", "8", "9">>,
    <<"1", "2", "3", "4">>,
    <<"1", "1", "1", "1", "1", "1">>,
    <<"d", "r", "a", "g", "o", "n">>,
    <<"1", "2", "3", "1", "2", "3">>,
    <<"b", "a", "s", "e", "b", "a", "l", "l">>,
    <<"f", "o", "o", "t", "b", "a", "l", "l">>,
    <<"m", "o", "n", "k", "e", "y">>,
    <<"l", "e", "t", "m", "e", "i", "n">>,
    <<"s", "h", "a", "d", "o", "w">>,
    <<"m", "a", "s", "t", "e", "r">>,
    <<"q", "w", "e", "r", "t", "y", "u", "i", "o", "p">>>>

\* Variant of is_generic_password: the password is not lowered
is_generic_password_NoLower(pw) ==
  \E i \in 1..Len(common_passwords) : pw = lower(common_passwords[i])

\* password.lower() in (p.lower() for p in self.common_passwords)
is_generic_password(pw) ==
  \E i \in 1..Len(common_passwords) : lower(pw) = lower(common_passwords[i])

\* Variant of LengthPoints: "if" in place of "elif", both tiers add
LengthPoints_BothTiers(pw) ==
  (IF Len(pw) >= 8 THEN 2 ELSE 0) + (IF Len(pw) >= 5 THEN 1 ELSE 0)

\* if len(password) >= 8: score += 2 / elif len(password) >= 5: score += 1
LengthPoints(pw) ==
  IF Len(pw) >= 8 THEN 2 ELSE IF Len(pw) >= 5 THEN 1 ELSE 0

\* Variant of UpperPoints: one point in place of two
UpperPoints_One(pw) == IF \E i \in 1..Len(pw) : isupper(pw[i]) THEN 1 ELSE 0

\* if any(c.isupper() for c in password): score += 2
UpperPoints(pw) == IF \E i \in 1..Len(pw) : isupper(pw[i]) THEN 2 ELSE 0

\* if any(c.islower() for c in password): score += 2
LowerPoints(pw) == IF \E i \in 1..Len(pw) : islower(pw[i]) THEN 2 ELSE 0

\* Variant of DigitPoints: the digit check is left out
DigitPoints_Skipped(pw) == 0

\* if any(c.isdigit() for c in password): score += 2
DigitPoints(pw) == IF \E i \in 1..Len(pw) : isdigit(pw[i]) THEN 2 ELSE 0

\* symbols = set(string.punctuation)
\* if any(c in symbols for c in password): score += 2
SymbolPoints(pw) ==
  LET symbols == punctuation
  IN  IF \E i \in 1..Len(pw) : pw[i] \in symbols THEN 2 ELSE 0

\* score_password(password): the early return, then the five increments of
\* the local variable score, in program order
score_password(pw) ==
  IF is_generic_password(pw) THEN 0
  ELSE LET s0 == 0
           s1 == s0 + LengthPoints(pw)
           s2 == s1 + UpperPoints(pw)
           s3 == s2 + LowerPoints(pw)
           s4 == s3 + DigitPoints(pw)
           s5 == s4 + SymbolPoints(pw)
       IN  s5

---------------------------------------------------------------------------
(* The strings the scorer is applied to.                                   *)

\* Longest stem enumerated exhaustively
MaxLen == 3
\* Longest run of one repeated character appended to a stem
MaxPad == 7

\* One character of each kind the scorer tells apart, cased non-ASCII and
\* caseless non-ASCII characters, and the space
Alphabet == {"A", "z", "7", "#", " ", "U+00C9", "U+4E2D"}

PadChars == {"x", "U+4E2D"}

\* All strings over A of length at most n
StringsUpTo(A, n) == UNION {[1..k -> A] : k \in 0..n}

\* c repeated k times
Fill(c, k) == [i \in 1..k |-> c]

\* Every stem, alone and followed by a run of a pad character
PaddedStrings ==
  {s \o Fill(c, k) : s \in StringsUpTo(Alphabet, MaxLen),
                     c \in PadChars, k \in 0..MaxPad}

\* c.upper() of one ASCII letter of a common password
CaseUp(c) == IF c \in AsciiLower THEN Chr(Ord(c) - 32) ELSE c

\* Every letter-casing of the string s
Casings(s) ==
  {[i \in 1..Len(s) |-> IF m[i] THEN CaseUp(s[i]) ELSE s[i]] :
     m \in [1..Len(s) -> BOOLEAN]}

\* Every letter-casing of every common password
CommonCasings == UNION {Casings(common_passwords[i]) :
                          i \in 1..Len(common_passwords)}

\* Named cases: the examples of the documentation, near misses of common
\* passwords, and characters whose case mapping is not one to one
Fixtures ==
  {<<"T", "r", "0", "u", "b", "4", "d", "o", "r", "&", "3">>,
   <<"a", "b", "c">>,
   <<"p", "a", "s", "s", "w", "o", "r", "d", "1">>,
   <<" ", "p", "a", "s", "s", "w", "o", "r", "d">>,
   <<"P", "a", "s", "s", "w", "o", "r", "d", " ">>,
   <<"m", "o", "n", "U+212A", "e", "y">>,
   <<"q", "w", "e", "r", "t", "y", "u", "U+0130", "o", "p">>,
   <<"U+00B2">>, <<"U+0663", "U+00E9">>,
   <<"1", "2", "3", "4", "5">>,
   <<"U+0060", "~", "\\", "\"">>}

ScoreInputs == PaddedStrings \cup CommonCasings \cup Fixtures

---------------------------------------------------------------------------
(* SpecScore: one call score_password(password), for any input string.     *)

NoRequest == [method |-> "none"]
NoResponse == [kind |-> "none"]
NoOutcome == [kind |-> "none"]

ScoreInit ==
  /\ pc = "call"
  /\ password \in ScoreInputs
  /\ other = <<>>
  /\ score = -1
  /\ score2 = -1
  /\ choice = <<>>
  /\ request = NoRequest
  /\ response = NoResponse
  /\ outcome = NoOutcome
  /\ shown = "nothing"

ScoreCall ==
  /\ pc = "call"
  /\ score' = score_password(password)
  /\ pc' = "returned"
  /\ UNCHANGED <<choice, password, other, score2, request, response,
                 outcome, shown>>

ScoreNext == ScoreCall

SpecScore == ScoreInit /\ [][ScoreNext]_vars

---------------------------------------------------------------------------
(* class PasswordChecker: the breach lookup                                *)

\* The passwords looked up.  "p7" and "xo" have SHA-1 digests with the same
\* first five hex digits, and so have "1234" and "503"; the digest of "1"
\* begins 356A1, which holds the password itself.
BreachPasswords ==
  {<<"p", "a", "s", "s", "w", "o", "r", "d">>, <<"p", "7">>, <<"x", "o">>,
   <<"1", "2", "3", "4">>, <<"5", "0", "3">>, <<>>, <<"1">>,
   <<"U+00E9", "a">>}

\* hashlib.sha1(password.encode('utf-8')).hexdigest().upper(), computed once
\* for each password looked up
Sha1Table ==
  [p \in BreachPasswords |-> upper(hexdigest(sha1(encode(p))))]

\* sha1password
sha1password(pw) == Sha1Table[pw]

\* Variant of Prefix: six digits of the digest
Prefix_SixDigits(pw) == SubSeq(sha1password(pw), 1, 6)

\* prefix, suffix = sha1password[:5], sha1password[5:]
Prefix(pw) == SubSeq(sha1password(pw), 1, 5)
Suffix(pw) == SubSeq(sha1password(pw), 6, Len(sha1password(pw)))

\* "https://api.pwnedpasswords.com/range/"
BaseUrl ==
  <<"h", "t", "t", "p", "s", ":", "/", "/", "a", "p", "i", ".", "p", "w",
    "n", "e", "d", "p", "a", "s", "s", "w", "o", "r", "d", "s", ".", "c",
    "o", "m", "/", "r", "a", "n", "g", "e", "/">>

\* url = f"https://api.pwnedpasswords.com/range/{prefix}"
Url(pw) == BaseUrl \o Prefix(pw)

\* requests.get(url, timeout=10): everything the call hands to the network
Request(pw) == [method |-> "GET", url |-> Url(pw), timeout |-> 10]

\* response.raise_for_status(): requests raises HTTPError for the client
\* and server error statuses, 400..599, and for no other status
RaisesForStatus(status) == 400 <= status /\ status < 600

RECURSIVE FirstIndexFrom(_, _, _)
\* The first index from i on of s holding a character of the set cs, or 0
FirstIndexFrom(s, cs, i) ==
  IF i > Len(s) THEN 0
  ELSE IF s[i] \in cs THEN i
  ELSE FirstIndexFrom(s, cs, i + 1)

FirstIndex(s, cs) == FirstIndexFrom(s, cs, 1)

RECURSIVE splitlines(_)
\* text.splitlines(): "\n", "\r" and "\r\n" end a line; no line follows the
\* last line ending
splitlines(s) ==
  IF s = <<>> THEN <<>>
  ELSE LET i == FirstIndex(s, {"\n", "\r"})
           n == IF i < Len(s) /\ s[i] = "\r" /\ s[i + 1] = "\n"
                THEN i + 1 ELSE i
       IN  IF i = 0 THEN <<s>>
           ELSE <<SubSeq(s, 1, i - 1)>> \o splitlines(SubSeq(s, n + 1, Len(s)))

RECURSIVE split(_, _)
\* line.split(sep) for a one-character separator
split(s, sep) ==
  LET i == FirstIndex(s, {sep})
  IN  IF i = 0 THEN <<s>>
      ELSE <<SubSeq(s, 1, i - 1)>> \o split(SubSeq(s, i + 1, Len(s)), sep)

\* The value of a decimal digit character int() accepts
DigitValue(c) ==
  IF c = "U+0663" THEN 3
  ELSE (CHOOSE i \in 1..10 : HexDigits[i] = c) - 1

DecimalChars == AsciiDigit \cup {"U+0663"}

RECURSIVE DigitsValue(_, _)
\* The number written by the digits of s (underscores skipped), after acc
DigitsValue(s, acc) ==
  IF s = <<>> THEN acc
  ELSE IF Head(s) = "_" THEN DigitsValue(Tail(s), acc)
  ELSE DigitsValue(Tail(s), 10 * acc + DigitValue(Head(s)))

\* int(count) of a str: surrounding whitespace is dropped, one sign is
\* allowed, then decimal digits with single underscores between them;
\* anything else raises ValueError
int(s) ==
  LET t == strip(s)
      signed == t # <<>> /\ t[1] \in {"+", "-"}
      d == IF signed THEN Tail(t) ELSE t
      ok == /\ d # <<>>
            /\ \A i \in 1..Len(d) : d[i] \in DecimalChars \cup {"_"}
            /\ d[1] # "_" /\ d[Len(d)] # "_"
            /\ \A i \in 1..(Len(d) - 1) : ~(d[i] = "_" /\ d[i + 1] = "_")
  IN  IF ~ok THEN [kind |-> "ValueError", where |-> "int"]
      ELSE [kind |-> "return",
            value |-> IF signed /\ t[1] = "-" THEN 0 - DigitsValue(d, 0)
                      ELSE DigitsValue(d, 0)]

RECURSIVE ScanHashes_IgnoreCase(_, _)
\* Variant of ScanHashes: the suffix is compared without regard to case
ScanHashes_IgnoreCase(lines, suffix) ==
  IF lines = <<>> THEN [kind |-> "return", value |-> 0]
  ELSE LET parts == split(Head(lines), ":")
       IN  IF Len(parts) # 2 THEN [kind |-> "ValueError", where |-> "unpack"]
           ELSE IF lower(parts[1]) = lower(suffix) THEN int(parts[2])
           ELSE ScanHashes_IgnoreCase(Tail(lines), suffix)

RECURSIVE ScanHashes(_, _)
\* hashes = (line.split(':') for line in response.text.splitlines())
\* for h, count in hashes:
\*     if h == suffix: return int(count)
\* return 0
\* The generator is consumed line by line: a line that does not split into
\* exactly two parts raises ValueError when the loop unpacks it.
ScanHashes(lines, suffix) ==
  IF lines = <<>> THEN [kind |-> "return", value |-> 0]
  ELSE LET parts == split(Head(lines), ":")
       IN  IF Len(parts) # 2 THEN [kind |-> "ValueError", where |-> "unpack"]
           ELSE IF parts[1] = suffix THEN int(parts[2])
           ELSE ScanHashes(Tail(lines), suffix)

\* try: response = requests.get(...); response.raise_for_status()
\* except requests.exceptions.RequestException as e:
\*     raise RuntimeError(f"Network error: {e}")
\* A response of kind "transport" stands for requests.get raising (no
\* connection, timeout); one of kind "http" carries a status and a body.
check_pwned_password(pw, resp) ==
  IF resp.kind = "transport"
  THEN [kind |-> "RuntimeError", message |-> "Network error",
        cause |-> resp.error]
  ELSE IF RaisesForStatus(resp.status)
  THEN [kind |-> "RuntimeError", message |-> "Network error",
        cause |-> "HTTPError"]
  ELSE ScanHashes(splitlines(resp.text), Suffix(pw))

---------------------------------------------------------------------------
(* The remote service: what requests.get can come back with.               *)

\* Most lines in a response body
MaxLines == 2

\* HTTP statuses: success, a 3xx that requests does not follow (Not
\* Modified), a client error and a server error
Statuses == {200, 304, 404, 503}

\* requests.get raising a RequestException
TransportErrors == {"ConnectionError", "Timeout"}

\* The suffix of another password's digest
OtherSuffix(pw) == IF pw = <<"1">> THEN Suffix(<<>>) ELSE Suffix(<<"1">>)

\* The lines a body served for pw is made of: SUFFIX:COUNT lines for its own
\* suffix (two counts), for its suffix in lowercase and for another suffix,
\* and lines that are not SUFFIX:COUNT
BodyLines(pw) ==
  LET sfx == Suffix(pw)
      oth == OtherSuffix(pw)
  IN  {sfx \o <<":", "3">>,
       sfx \o <<":", "1", "2">>,
       lower(sfx) \o <<":", "5">>,
       oth \o <<":", "9">>,
       sfx,
       sfx \o <<":", "1", ":", "2">>,
       <<>>,
       sfx \o <<":", "-", "4">>,
       sfx \o <<":", "x">>,
       oth \o <<":", "x">>}

LineEndings == {<<"\r", "\n">>, <<"\n">>}

RECURSIVE Join(_, _)
\* The body text: the lines with eol between them
Join(lines, eol) ==
  IF lines = <<>> THEN <<>>
  ELSE IF Len(lines) = 1 THEN lines[1]
  ELSE lines[1] \o eol \o Join(Tail(lines), eol)

\* Every response to a lookup of pw with bodies of at most n lines.  The
\* field lines is the list the service served; the program reads text only.
ResponsesUpTo(pw, n) ==
  {[kind |-> "transport", error |-> e] : e \in TransportErrors}
    \cup {[kind |-> "http", status |-> st, lines |-> ls,
           text |-> Join(ls, eol)] :
            st \in Statuses,
            ls \in UNION {[1..k -> BodyLines(pw)] : k \in 0..n},
            eol \in LineEndings}

Responses(pw) == ResponsesUpTo(pw, MaxLines)

---------------------------------------------------------------------------
(* SpecBreach: one call check_pwned_password(password), for any response.  *)

BreachInit ==
  /\ pc = "start"
  /\ password \in BreachPasswords
  /\ other = <<>>
  /\ score = -1
  /\ score2 = -1
  /\ choice = <<>>
  /\ request = NoRequest
  /\ response = NoResponse
  /\ outcome = NoOutcome
  /\ shown = "nothing"

\* Lines 81-86: the digest is split and the GET is issued
SendRequest ==
  /\ pc = "start"
  /\ request' = Request(password)
  /\ pc' = "sent"
  /\ UNCHANGED <<choice, password, other, score, score2, response, outcome,
                 shown>>

\* Lines 86-95: requests.get returns or raises, and the call ends
Respond ==
  /\ pc = "sent"
  /\ \E resp \in Responses(password) :
       /\ response' = resp
       /\ outcome' = check_pwned_password(password, resp)
  /\ pc' = "done"
  /\ UNCHANGED <<choice, password, other, score, score2, request, shown>>

BreachNext == SendRequest \/ Respond

SpecBreach == BreachInit /\ [][BreachNext]_vars

---------------------------------------------------------------------------
(* SpecMono: score_password applied to two passwords.                      *)

\* The characters of s that belong to the set cs, in order
RECURSIVE Keep(_, _)
Keep(s, cs) ==
  IF s = <<>> THEN <<>>
  ELSE IF Head(s) \in cs THEN <<Head(s)>> \o Keep(Tail(s), cs)
  ELSE Keep(Tail(s), cs)

\* A string for every set of character classes and every length from 0 to
\* 4 + MaxPad: the classes present, then a run of a caseless letter
ProbeStrings ==
  {Keep(<<"A", "z", "7", "#">>, cs) \o Fill("U+4E2D", k) :
     cs \in SUBSET {"A", "z", "7", "#"}, k \in 0..MaxPad}

MonoInputs ==
  ProbeStrings
    \cup {<<"p", "a", "s", "s", "w", "o", "r", "d">>,
          <<"P", "a", "s", "s", "W", "o", "r", "d">>,
          <<"1", "2", "3", "4">>,
          <<"U+00C9", "U+00E9", "U+0663", "!", "x">>}

MonoInit ==
  /\ pc = "call"
  /\ password \in MonoInputs
  /\ other \in MonoInputs
  /\ score = -1
  /\ score2 = -1
  /\ choice = <<>>
  /\ request = NoRequest
  /\ response = NoResponse
  /\ outcome = NoOutcome
  /\ shown = "nothing"

ScorePair ==
  /\ pc = "call"
  /\ score' = score_password(password)
  /\ score2' = score_password(other)
  /\ pc' = "returned"
  /\ UNCHANGED <<choice, password, other, request, response, outcome, shown>>

MonoNext == ScorePair

SpecMono == MonoInit /\ [][MonoNext]_vars

---------------------------------------------------------------------------
(* Spec: the command loop main().  One action is one pass of the while     *)
(* loop: the menu, the choice read, and the whole branch taken.            *)

\* What the user types at "Enter your choice (1-3): "
ChoiceInputs ==
  {<<"1">>, <<" ", "2">>, <<"3">>, <<" ", "3", "\t">>, <<"4">>, <<>>,
   <<"1", "3">>}

\* What the user types at "Enter the password to analyze: ": a string for
\* each score from 0 to 10, common passwords, and surrounding whitespace
TypedToAnalyze ==
  {<<>>,
   Fill("U+4E2D", 5),
   <<"z">>,
   Fill("z", 5),
   <<"A", "z">>,
   <<"A", "z">> \o Fill("U+4E2D", 3),
   <<"A", "z", "7">>,
   <<"A", "z", "7">> \o Fill("U+4E2D", 2),
   <<"A", "z", "7", "#">>,
   <<"A", "z", "7", "#", "U+4E2D">>,
   <<"T", "r", "0", "u", "b", "4", "d", "o", "r", "&", "3">>,
   <<"p", "a", "s", "s", "w", "o", "r", "d">>,
   <<" ", "P", "a", "s", "s", "W", "o", "r", "d", " ">>,
   <<"\t", "A", "z", "7", "#", " ">>,
   Fill(" ", 8)}

\* What the user types at "Enter the password to check: "
TypedToCheck ==
  {<<"p", "a", "s", "s", "w", "o", "r", "d">>, <<" ", "p", "7", " ">>,
   <<"1">>}

\* The responses the loop is run against, for each password it looks up:
\* a timeout, a server error, and status 200 with every body of at most one
\* line, which gives each way the lookup can end
MainResponseTable ==
  [pw \in {strip(t) : t \in TypedToCheck} |->
     {[kind |-> "transport", error |-> "Timeout"]}
       \cup {r \in ResponsesUpTo(pw, 1) :
               /\ r.kind = "http"
               /\ \/ r.status = 200
                  \/ r.status = 503 /\ r.lines = <<>>}]

MainResponses(pw) == MainResponseTable[pw]

\* Variant of ResultLine: "score < 4" in place of "score <= 4"
ResultLine_WeakBelow4(sc) ==
  IF sc = 0 THEN "too common or weak"
  ELSE IF sc < 4 THEN "weak"
  ELSE IF sc <= 7 THEN "moderate"
  ELSE "strong"

\* The Result line printed for a score
ResultLine(sc) ==
  IF sc = 0 THEN "too common or weak"
  ELSE IF sc <= 4 THEN "weak"
  ELSE IF sc <= 7 THEN "moderate"
  ELSE "strong"

\* Variant of CaughtByMain: "except RuntimeError" in place of
\* "except Exception"
CaughtByMain_RuntimeErrorOnly(kind) == kind = "RuntimeError"

\* except Exception as e: the outcomes of the lookup that main catches
CaughtByMain(kind) == kind \in {"RuntimeError", "ValueError"}

\* What branch '2' prints for the outcome of the lookup
LeakLine(out) ==
  IF out.kind = "return"
  THEN IF out.value # 0 THEN "warning: found in breaches"
       ELSE "not found in breaches"
  ELSE IF CaughtByMain(out.kind) THEN "an error occurred"
  ELSE "traceback"

Init ==
  /\ pc = "menu"
  /\ choice = <<>>
  /\ password = <<>>
  /\ other = <<>>
  /\ score = -1
  /\ score2 = -1
  /\ request = NoRequest
  /\ response = NoResponse
  /\ outcome = NoOutcome
  /\ shown = "nothing"

\* choice == '1'
AnalyzeStrength ==
  /\ pc = "menu"
  /\ \E c \in ChoiceInputs :
       /\ strip(c) = <<"1">>
       /\ choice' = strip(c)
  /\ \E typed \in TypedToAnalyze :
       LET pw == strip(typed)
           sc == score_password(pw)
       IN  /\ password' = pw
           /\ score' = sc
           /\ shown' = ResultLine(sc)
  /\ pc' = "menu"
  /\ UNCHANGED <<other, score2, request, response, outcome>>

\* choice == '2'
LeakCheck ==
  /\ pc = "menu"
  /\ \E c \in ChoiceInputs :
       /\ strip(c) = <<"2">>
       /\ choice' = strip(c)
  /\ \E typed \in TypedToCheck :
       \E resp \in MainResponses(strip(typed)) :
         LET pw == strip(typed)
             out == check_pwned_password(pw, resp)
         IN  /\ password' = pw
             /\ request' = Request(pw)
             /\ response' = resp
             /\ outcome' = out
             /\ shown' = LeakLine(out)
             /\ pc' = IF out.kind = "return" \/ CaughtByMain(out.kind)
                      THEN "menu" ELSE "crashed"
  /\ UNCHANGED <<other, score, score2>>

\* choice == '3'
ExitProgram ==
  /\ pc = "menu"
  /\ \E c \in ChoiceInputs :
       /\ strip(c) = <<"3">>
       /\ choice' = strip(c)
  /\ shown' = "exiting"
  /\ pc' = "exited"
  /\ UNCHANGED <<password, other, score, score2, request, response, outcome>>

\* else
InvalidChoice ==
  /\ pc = "menu"
  /\ \E c \in ChoiceInputs :
       /\ strip(c) \notin {<<"1">>, <<"2">>, <<"3">>}
       /\ choice' = strip(c)
  /\ shown' = "invalid choice"
  /\ pc' = "menu"
  /\ UNCHANGED <<password, other, score, score2, request, response, outcome>>

Next == AnalyzeStrength \/ LeakCheck \/ ExitProgram \/ InvalidChoice

Spec == Init /\ [][Next]_vars

---------------------------------------------------------------------------
(* Properties.  The notions they are stated in are defined here on their   *)
(* own, apart from the operators that model the program.                   *)

\* Simple case folding of one character
CaseFold(c) ==
  IF c \in AsciiUpper THEN Chr(Ord(c) + 32)
  ELSE IF c = "U+00C9" THEN "U+00E9"
  ELSE IF c = "U+212A" THEN "k"
  ELSE c

\* a and b are equal when letter-casing is disregarded
EqualIgnoringCase(a, b) ==
  /\ Len(a) = Len(b)
  /\ \A i \in 1..Len(a) : CaseFold(a[i]) = CaseFold(b[i])

\* pw is an entry of the common-password set, in some letter-casing
InCommonSet(pw) ==
  \E i \in 1..Len(common_passwords) :
    EqualIgnoringCase(pw, common_passwords[i])

\* The character classes present in pw
ClassesPresent(pw) ==
  {k \in {"upper", "lower", "digit", "punctuation"} :
     \E i \in 1..Len(pw) :
       \/ k = "upper" /\ isupper(pw[i])
       \/ k = "lower" /\ islower(pw[i])
       \/ k = "digit" /\ isdigit(pw[i])
       \/ k = "punctuation" /\ pw[i] \in punctuation}

\* The number of the five checks pw satisfies: the length tier (five
\* characters or more) and the four character classes
NumChecks(pw) ==
  (IF Len(pw) >= 5 THEN 1 ELSE 0) + Cardinality(ClassesPresent(pw))

\* The length bonus: the tiers exclude one another
LengthBonus(pw) ==
  CASE Len(pw) >= 8 -> 2
    [] Len(pw) \in 5..7 -> 1
    [] Len(pw) < 5 -> 0

\* C1: a password equal, case disregarded, to an entry of the
\* common-password set scores exactly 0, whatever its length and classes.
C1_CommonPasswordScoresZero ==
  (pc = "returned" /\ InCommonSet(password)) => score = 0

\* C1 witness: "PASSWORD", eight characters all uppercase, scored 0
C1_Witness ==
  /\ pc = "returned"
  /\ password = <<"P", "A", "S", "S", "W", "O", "R", "D">>
  /\ score = 0

\* C2: every score returned, for every input string, lies in 0..10.
C2_ScoreInRange ==
  pc = "returned" => (score >= 0 /\ score <= 10)

\* C2 witness: both ends of the range are returned; here the top, for a
\* password of eight or more characters with all four classes
C2_Witness ==
  /\ pc = "returned"
  /\ score = 10
  /\ Len(password) >= 8
  /\ Cardinality(ClassesPresent(password)) = 4

\* C7: for two passwords outside the common-password set, the one that
\* satisfies strictly fewer of the five checks never scores higher.
C7_MonotoneInChecks ==
  ( /\ pc = "returned"
    /\ ~InCommonSet(password)
    /\ ~InCommonSet(other)
    /\ NumChecks(password) < NumChecks(other) )
  => score <= score2

\* C7 witness: the closest case, a password of eight characters with one
\* class (two checks, score 2 + 2) against one of the middle length tier
\* with two classes (three checks, score 1 + 4)
C7_Witness ==
  /\ pc = "returned"
  /\ ~InCommonSet(password) /\ ~InCommonSet(other)
  /\ Len(password) >= 8 /\ NumChecks(password) = 2 /\ score = 4
  /\ Len(other) \in 5..7 /\ NumChecks(other) = 3 /\ score2 = 5

\* C8: outside the common-password set the score is the length bonus (2 from
\* eight characters, else 1 from five, else 0) plus 2 for each of the four
\* character classes present; the empty string scores 0 and a password of
\* eight or more characters with all four classes scores 10.
C8_ScoreIsSumOfBonuses ==
  (pc = "returned" /\ ~InCommonSet(password)) =>
    /\ score = LengthBonus(password) + 2 * Cardinality(ClassesPresent(password))
    /\ (password = <<>> => score = 0)
    /\ (Len(password) >= 8 /\ Cardinality(ClassesPresent(password)) = 4
          => score = 10)

\* C8 witness: the middle length tier with three classes, score 1 + 6
C8_Witness ==
  /\ pc = "returned"
  /\ ~InCommonSet(password)
  /\ Len(password) \in 5..7
  /\ Cardinality(ClassesPresent(password)) = 3
  /\ score = 7

\* The Result lines of branch '1'
ResultLines == {"too common or weak", "weak", "moderate", "strong"}

\* C10: the Result line shown for a score is "too common or weak" for 0,
\* "weak" for 1..4, "moderate" for 5..7 and "strong" for 8..10: one band
\* for every score of 0..10.
C10_ScoreBands ==
  shown \in ResultLines =>
    /\ score \in 0..10
    /\ (shown = "too common or weak") <=> (score = 0)
    /\ (shown = "weak") <=> (score \in 1..4)
    /\ (shown = "moderate") <=> (score \in 5..7)
    /\ (shown = "strong") <=> (score \in 8..10)

\* C10 witness: the lowest score of the "moderate" band has been shown
C10_Witness == pc = "menu" /\ score = 5 /\ shown = "moderate"

\* C9: a pass of the loop ends in the exited state only when the choice read
\* was '3'; every other pass (analysis, lookup that returned or raised,
\* invalid choice) ends back at the menu, and no pass ends in a crash.
C9_ExitOnlyByChoice3 ==
  [][ /\ (pc' = "exited" => (pc = "menu" /\ choice' = <<"3">>))
      /\ (choice' # <<"3">> => pc' = "menu")
      /\ pc' # "crashed" ]_vars

\* C9 witness: back at the menu after a lookup that raised ValueError
C9_Witness ==
  /\ pc = "menu"
  /\ choice = <<"2">>
  /\ outcome.kind = "ValueError"
  /\ shown = "an error occurred"

\* The digests of the passwords looked up, as hashlib gives them
KnownSha1 ==
  [p \in BreachPasswords |->
     CASE p = <<"p", "a", "s", "s", "w", "o", "r", "d">> ->
            <<"5", "B", "A", "A", "6", "1", "E", "4", "C", "9", "B", "9", "3",
              "F", "3", "F", "0", "6", "8", "2", "2", "5", "0", "B", "6", "C",
              "F", "8", "3", "3", "1", "B", "7", "E", "E", "6", "8", "F", "D",
              "8">>
       [] p = <<"p", "7">> ->
            <<"E", "8", "8", "B", "9", "E", "B", "4", "A", "2", "9", "3", "4",
              "3", "7", "6", "2", "5", "2", "2", "7", "C", "5", "2", "9", "4",
              "6", "0", "D", "0", "E", "0", "0", "A", "2", "1", "6", "E", "9",
              "D">>
       [] p = <<"x", "o">> ->
            <<"E", "8", "8", "B", "9", "D", "3", "7", "B", "0", "8", "1", "5",
              "8", "B", "4", "9", "3", "5", "4", "F", "D", "8", "5", "A", "3",
              "C", "4", "E", "0", "9", "5", "E", "0", "6", "5", "B", "C", "7",
              "6">>
       [] p = <<"1", "2", "3", "4">> ->
            <<"7", "1", "1", "0", "E", "D", "A", "4", "D", "0", "9", "E", "0",
              "6", "2", "A", "A", "5", "E", "4", "A", "3", "9", "0", "B", "0",
              "A", "5", "7", "2", "A", "C", "0", "D", "2", "C", "0", "2", "2",
              "0">>
       [] p = <<"5", "0", "3">> ->
            <<"7", "1", "1", "0", "E", "0", "D", "3", "F", "2", "3", "6", "9",
              "8", "6", "F", "2", "0", "F", "4", "2", "9", "7", "A", "4", "8",
              "A", "5", "3", "6", "D", "8", "F", "A", "C", "5", "C", "4", "1",
              "1">>
       [] p = <<>> ->
            <<"D", "A", "3", "9", "A", "3", "E", "E", "5", "E", "6", "B", "4",
              "B", "0", "D", "3", "2", "5", "5", "B", "F", "E", "F", "9", "5",
              "6", "0", "1", "8", "9", "0", "A", "F", "D", "8", "0", "7", "0",
              "9">>
       [] p = <<"1">> ->
            <<"3", "5", "6", "A", "1", "9", "2", "B", "7", "9", "1", "3", "B",
              "0", "4", "C", "5", "4", "5", "7", "4", "D", "1", "8", "C", "2",
              "8", "D", "4", "6", "E", "6", "3", "9", "5", "4", "2", "8", "A",
              "B">>
       [] p = <<"U+00E9", "a">> ->
            <<"2", "B", "8", "8", "6", "8", "5", "7", "F", "8", "5", "3", "F",
              "B", "5", "1", "A", "3", "0", "9", "B", "5", "0", "B", "C", "A",
              "A", "B", "1", "A", "2", "8", "7", "E", "C", "4", "1", "F", "9",
              "D">>]

KnownPrefix(pw) == SubSeq(KnownSha1[pw], 1, 5)
KnownSuffix(pw) == SubSeq(KnownSha1[pw], 6, 40)

\* t occurs in s as a run of consecutive characters
Contains(s, t) ==
  \E i \in 0..(Len(s) - Len(t)) : SubSeq(s, i + 1, i + Len(t)) = t

\* The request failed: no response arrived, or one with a status outside
\* 200..299
RequestFailed(r) ==
  \/ r.kind = "transport"
  \/ r.kind = "http" /\ r.status \notin 200..299

\* C3: when the HTTP request fails (transport error, timeout or non-success
\* status) the call raises the network error carrying the cause, and never
\* returns a count.
C3_FailureRaisesNetworkError ==
  (pc = "done" /\ RequestFailed(response)) =>
    /\ outcome.kind = "RuntimeError"
    /\ outcome.message = "Network error"

HexChars == AsciiDigit \cup {"A", "B", "C", "D", "E", "F"}
               \cup {"a", "b", "c", "d", "e", "f"}

\* The line is SUFFIX:COUNT, 35 hex digits, a colon, a decimal count
IsSuffixCountLine(l) ==
  /\ Len(l) >= 37
  /\ l[36] = ":"
  /\ \A i \in 1..35 : l[i] \in HexChars
  /\ \A i \in 37..Len(l) : l[i] \in AsciiDigit

RECURSIVE Decimal(_)
\* The number a string of ASCII digits writes
Decimal(d) ==
  IF d = <<>> THEN 0
  ELSE 10 * Decimal(SubSeq(d, 1, Len(d) - 1)) + (Ord(d[Len(d)]) - 48)

LineSuffix(l) == SubSeq(l, 1, 35)
LineCount(l) == Decimal(SubSeq(l, 37, Len(l)))

\* A successful response whose body is a list of SUFFIX:COUNT lines
SuccessWithSuffixCountLines(r) ==
  /\ r.kind = "http"
  /\ r.status \in 200..299
  /\ \A i \in 1..Len(r.lines) : IsSuffixCountLine(r.lines[i])

\* The lines of the body that carry the password's suffix
Matches(pw, r) ==
  {i \in 1..Len(r.lines) : LineSuffix(r.lines[i]) = KnownSuffix(pw)}

\* C5 as stated: the call returns N whenever the body holds a line with the
\* password's suffix and count N, and 0 when it holds none.
C5_ReturnsCountOfAnyMatch ==
  (pc = "done" /\ SuccessWithSuffixCountLines(response)) =>
    /\ \A i \in Matches(password, response) :
         outcome = [kind |-> "return", value |-> LineCount(response.lines[i])]
    /\ (Matches(password, response) = {}
          => outcome = [kind |-> "return", value |-> 0])

\* C5 amended: the call returns the count of the first line that carries
\* the password's suffix (exact, case-sensitive), and 0 when no line does.
C5_ReturnsCountOfFirstMatch ==
  (pc = "done" /\ SuccessWithSuffixCountLines(response)) =>
    LET m == Matches(password, response)
    IN  IF m = {} THEN outcome = [kind |-> "return", value |-> 0]
        ELSE LET first == CHOOSE i \in m : \A j \in m : i <= j
             IN  outcome = [kind |-> "return",
                            value |-> LineCount(response.lines[first])]

\* C5 witness: two lines carry the suffix, with counts 12 and then 3, and
\* the call returned 12
C5_Witness ==
  /\ pc = "done"
  /\ SuccessWithSuffixCountLines(response)
  /\ Cardinality(Matches(password, response)) = 2
  /\ LineCount(response.lines[1]) = 12
  /\ LineCount(response.lines[2]) = 3
  /\ outcome = [kind |-> "return", value |-> 12]

\* C6: every call ends either returning an integer count of 0 or more or
\* raising the network error, whatever the response body holds.
C6_CountOrNetworkErrorOnly ==
  pc = "done" =>
    \/ outcome.kind = "return" /\ outcome.value >= 0
    \/ outcome.kind = "RuntimeError" /\ outcome.message = "Network error"

===========================================================================
